---- MODULE Spec2Model ----
(***************************************************************************)
(* Model of the text2code generation pipeline:                             *)
(*   server/routers/codegen.py            generate_pyspark_endpoint        *)
(*   server/services/pyspark_generator.py generate_pyspark_code,           *)
(*                                        read_mapping_csv_from_local,     *)
(*                                        call_claude_sonnet               *)
(*                                                                         *)
(* Text is a sequence of one-character strings, so that concatenation,     *)
(* prefix tests and trimming are computed and not assumed.  A Python value *)
(* that may be None, a str or some other object is a record [t, v].        *)
(***************************************************************************)
EXTENDS Integers, Sequences, FiniteSets, TLC

VARIABLES
    body,            \* GenerateRequest: the fields of the request body
    headers,         \* request.headers: Authorization, X-Databricks-Token
    env_token,       \* os.environ.get("DATABRICKS_TOKEN")
    steps,           \* steps: List[Step] of generate_pyspark_endpoint
    request_token,   \* request_token local of generate_pyspark_endpoint
    pc,              \* position of the request in endpoint / generator / client
    source_read,     \* which mapping source generate_pyspark_code read
    csv_read,        \* the CSV text handed to read_mapping_csv_from_local
    mapping_list,    \* result of read_mapping_csv / read_mapping_csv_from_local
    token,           \* token local of generate_pyspark_code
    create_calls,    \* outcomes of client.chat.completions.create, in call order
    resp,            \* resp local of call_claude_sonnet
    collected_parts, \* collected_parts local of call_claude_sonnet
    iter_failed,     \* whether "for chunk in resp" raised (iter_err handler ran)
    ret,             \* what call_claude_sonnet returned or raised
    outcome,         \* what the endpoint answered: response or HTTPException
    raw_code,        \* response.choices[0].message.content in generate_from_volume
    code,            \* what generate_from_volume returned or raised
    recode           \* what cleaning the returned code once more gives

vars == << body, headers, env_token, steps, request_token, pc, source_read, csv_read,
           mapping_list, token, create_calls, resp, collected_parts,
           iter_failed, ret, outcome, raw_code, code, recode >>

\* the variables of CodeGenerator.generate_from_volume (code_generator.py)
sanitizer_vars == << raw_code, code, recode >>

-----------------------------------------------------------------------------
(* Bounds of the model.                                                    *)

\* longest chunk sequence a streamed reply delivers
MaxChunks == 3

-----------------------------------------------------------------------------
(* Python values.                                                          *)

None == [t |-> "none", v |-> << >>]
Absent == [t |-> "absent", v |-> << >>]
Obj == [t |-> "obj", v |-> << >>]
Str(s) == [t |-> "str", v |-> s]

\* isinstance(x, str)
IsStr(x) == x.t = "str"

\* bool(x): None and "" are falsy, any other object is truthy
Truthy(x) == x.t = "obj" \/ (x.t = "str" /\ x.v # << >>)

\* s.startswith(p)
StartsWith(s, p) == Len(s) >= Len(p) /\ SubSeq(s, 1, Len(p)) = p

\* "".join(parts) for parts that are all str
RECURSIVE Concat(_)
Concat(parts) ==
    IF parts = << >> THEN << >>
    ELSE Head(parts).v \o Concat(Tail(parts))

-----------------------------------------------------------------------------
(* call_claude_sonnet: the reply of client.chat.completions.create and the *)
(* fallback chain that extracts text from it.                              *)
(*                                                                         *)
(* A reply is a record                                                     *)
(*   choices : "absent"  no attribute "choices"                            *)
(*             "nolen"   the attribute exists and len() of it raises       *)
(*             "empty"   an empty list                                     *)
(*             "list"    a list whose first element is `first`             *)
(*   first   : [hasMessage, content, text] of resp.choices[0]              *)
(*   iter    : hasattr(resp, "__iter__") and not isinstance(resp, (str,    *)
(*             bytes))                                                     *)
(*   chunks  : the chunks iteration yields                                 *)
(*   iterErr : whether iteration raises after yielding `chunks`            *)
(*   str     : str(resp), or Absent when str() raises                      *)
(***************************************************************************)

NoResult == [t |-> "noresult", v |-> << >>]
Raised == [t |-> "raised", v |-> << >>]

\* faulty variant of StandardExtract: the direct text field is tried first
StandardExtract_TextFirst(r) ==
    IF r.choices # "list" THEN NoResult
    ELSE IF r.first.text # None /\ IsStr(r.first.text) THEN r.first.text
    ELSE IF r.first.hasMessage /\ r.first.content # None /\ IsStr(r.first.content)
        THEN r.first.content
    ELSE NoResult

\* lines 263-291: resp.choices[0].message.content, then resp.choices[0].text
StandardExtract(r) ==
    IF r.choices # "list" THEN NoResult
    ELSE IF r.first.hasMessage /\ r.first.content # None /\ IsStr(r.first.content)
        THEN r.first.content
    ELSE IF r.first.text # None /\ IsStr(r.first.text) THEN r.first.text
    ELSE NoResult

\* lines 308-337: what one chunk appends to collected_parts.
\*   k = "obj"   the chunk has a non-empty .choices; content is
\*               choices[0].delta.content (or delta.get("content")), text is
\*               choices[0].text; each is appended when truthy
\*   k = "dict"  a plain dict with one choice; content is Absent when the
\*               choice has no delta.content key, text is Absent when it has
\*               no text key; a present key is appended whatever its value
\*   k = "other" neither: nothing is appended
\*   k = "bad"   processing the chunk raises: the chunk is skipped
ChunkParts(c) ==
    CASE c.k = "obj" ->
            (IF Truthy(c.content) THEN << c.content >> ELSE << >>)
            \o (IF Truthy(c.text) THEN << c.text >> ELSE << >>)
      [] c.k = "dict" ->
            IF c.content # Absent THEN << c.content >>
            ELSE IF c.text # Absent THEN << c.text >>
            ELSE << >>
      [] OTHER -> << >>

\* lines 297-341: collected_parts after the loop over the chunks
RECURSIVE CollectParts(_)
CollectParts(chunks) ==
    IF chunks = << >> THEN << >>
    ELSE ChunkParts(Head(chunks)) \o CollectParts(Tail(chunks))

\* "".join(collected_parts) raises TypeError unless every part is a str
JoinRaises(parts) == \E i \in 1..Len(parts) : ~IsStr(parts[i])

\* lines 345-355: the result of the streaming stage for the collected parts
StreamingResult(parts) ==
    IF parts = << >> THEN NoResult
    ELSE IF JoinRaises(parts) THEN NoResult
    ELSE Str(Concat(parts))

\* line 366: the string forms that are only the repr of a stream handle
StreamingResponseMarker ==
    << "<", "_", "S", "t", "r", "e", "a", "m", "i", "n", "g",
       "R", "e", "s", "p", "o", "n", "s", "e" >>
StreamMarker == << "<", "S", "t", "r", "e", "a", "m" >>

\* faulty variant of IsStreamRepr: only the first marker is recognised
IsStreamRepr_OneMarker(s) == StartsWith(s, StreamingResponseMarker)

IsStreamRepr(s) ==
    StartsWith(s, StreamingResponseMarker) \/ StartsWith(s, StreamMarker)

\* lines 358-373: the result of the stringification stage
StringifyResult(r) ==
    IF r.str = Absent THEN NoResult
    ELSE IF Len(r.str.v) > 0 /\ ~IsStreamRepr(r.str.v) THEN r.str
    ELSE NoResult

-----------------------------------------------------------------------------
(* read_mapping_csv_from_local: pandas.read_csv of the mapping file, the   *)
(* header check, trimming, filtering and grouping into descriptors.        *)
(*                                                                         *)
(* A CSV text is [header, lines]: the fields of its first line and the     *)
(* fields of each later line.  The empty text has no header and no lines.  *)
(***************************************************************************)

Source_Table == 
    << "S", "o", "u", "r", "c", "e", "_", "T", "a", "b", "l", "e" >>
Source_Column == 
    << "S", "o", "u", "r", "c", "e", "_", "C", "o", "l", "u", "m", "n" >>
Target_Table == 
    << "T", "a", "r", "g", "e", "t", "_", "T", "a", "b", "l", "e" >>
Target_Column == 
    << "T", "a", "r", "g", "e", "t", "_", "C", "o", "l", "u", "m", "n" >>
Transformation == 
    << "T", "r", "a", "n", "s", "f", "o", "r", "m", "a", "t", "i", "o", "n" >>

\* line 137
EXPECTED_COLS ==
    { Source_Table, Source_Column, Target_Table, Target_Column, Transformation }

Range(f) == { f[i] : i \in DOMAIN f }

\* the whitespace characters of the texts of the model
IsSpace(c) == c \in { " ", "\n", "\t" }

\* str.strip()
RECURSIVE LStrip(_)
LStrip(s) ==
    IF s # << >> /\ IsSpace(Head(s)) THEN LStrip(Tail(s)) ELSE s

RECURSIVE RStrip(_)
RStrip(s) ==
    IF s # << >> /\ IsSpace(s[Len(s)])
    THEN RStrip(SubSeq(s, 1, Len(s) - 1))
    ELSE s

Strip(s) == RStrip(LStrip(s))

\* str.replace(".", "_")
ReplaceDots(s) == [i \in 1..Len(s) |-> IF s[i] = "." THEN "_" ELSE s[i]]

\* bool(text) of a CSV text: the empty text is falsy
CsvNonEmpty(csv) == csv.header # << >> \/ csv.lines # << >>

\* line 143: df.columns = [c.strip() for c in df.columns]
StrippedColumns(csv) == [i \in 1..Len(csv.header) |-> Strip(csv.header[i])]

\* faulty variant of MissingColumns: only the grouping column is required
MissingColumns_OnlySourceTable(csv) ==
    { Source_Table } \ Range(StrippedColumns(csv))

\* lines 145-146: EXPECTED_COLS - present
MissingColumns(csv) == EXPECTED_COLS \ Range(StrippedColumns(csv))

\* line 140: the field texts pandas.read_csv reads as NaN (its default
\* na_values, which dtype=str does not switch off); fillna("") then makes
\* them ""
NaValues ==
    { << >>,
      << "#", "N", "/", "A" >>,
      << "#", "N", "/", "A", " ", "N", "/", "A" >>,
      << "#", "N", "A" >>,
      << "-", "1", ".", "#", "I", "N", "D" >>,
      << "-", "1", ".", "#", "Q", "N", "A", "N" >>,
      << "-", "N", "a", "N" >>,
      << "-", "n", "a", "n" >>,
      << "1", ".", "#", "I", "N", "D" >>,
      << "1", ".", "#", "Q", "N", "A", "N" >>,
      << "<", "N", "A", ">" >>,
      << "N", "/", "A" >>,
      << "N", "A" >>,
      << "N", "U", "L", "L" >>,
      << "N", "a", "N" >>,
      << "n", "/", "a" >>,
      << "n", "a", "n" >>,
      << "n", "u", "l", "l" >> }

\* line 140: a field as the data frame holds it after fillna("")
ParsedField(f) == IF f \in NaValues THEN << >> ELSE f

\* pandas skips a line that is empty or holds only whitespace
IsBlankLine(line) == Len(line) = 0 \/ (Len(line) = 1 /\ Strip(line[1]) = << >>)

\* lines 140, 150-152: the value of column `name` in a data line: a line
\* shorter than the header is padded with NaN, which fillna("") turns to "",
\* and every value is stripped; a column the frame lacks reads as "" (line
\* 171, row.get)
FieldOf(csv, line, name) ==
    LET cols == StrippedColumns(csv)
        at == { k \in 1..Len(cols) : cols[k] = name }
        i == CHOOSE k \in at : \A j \in at : k <= j
    IN  IF at = {} THEN << >>
        ELSE IF i <= Len(line) THEN Strip(ParsedField(line[i]))
        ELSE << >>

RowOf(csv, line) ==
    [ Source_Table |-> FieldOf(csv, line, Source_Table),
      Source_Column |-> FieldOf(csv, line, Source_Column),
      Target_Table |-> FieldOf(csv, line, Target_Table),
      Target_Column |-> FieldOf(csv, line, Target_Column),
      Transformation |-> FieldOf(csv, line, Transformation) ]

\* lines 140-155: the data frame rows, in file order, after the filter on
\* Source_Table
RECURSIVE FrameRows(_, _)
FrameRows(csv, lines) ==
    IF lines = << >> THEN << >>
    ELSE LET line == Head(lines)
             rest == FrameRows(csv, Tail(lines))
         IN  IF IsBlankLine(line) THEN rest
             ELSE IF RowOf(csv, line).Source_Table = << >> THEN rest
             ELSE << RowOf(csv, line) >> \o rest

\* faulty variant of GroupKeys: the keys in the order of their last appearance
GroupKeys_LastAppearance(rows, seen) ==
    LET keys == { rows[i].Source_Table : i \in 1..Len(rows) } \ seen
        last(k) == CHOOSE i \in 1..Len(rows) :
                      /\ rows[i].Source_Table = k
                      /\ \A j \in 1..Len(rows) : rows[j].Source_Table = k => j <= i
    IN  IF keys = {} THEN << >>
        ELSE CHOOSE q \in [1..Cardinality(keys) -> keys] :
                \A i, j \in 1..Cardinality(keys) : i < j => last(q[i]) < last(q[j])

\* df.groupby("Source_Table", sort=False): the keys in first-appearance order
RECURSIVE GroupKeys(_, _)
GroupKeys(rows, seen) ==
    IF rows = << >> THEN << >>
    ELSE IF Head(rows).Source_Table \in seen THEN GroupKeys(Tail(rows), seen)
    ELSE << Head(rows).Source_Table >>
         \o GroupKeys(Tail(rows), seen \cup { Head(rows).Source_Table })

\* the rows of one group, in frame order
GroupRows(rows, key) == SelectSeq(rows, LAMBDA r : r.Source_Table = key)

\* faulty variant of FirstTarget: a later non-empty target table overwrites
\* an earlier one
FirstTarget_Last(rows) ==
    LET named == SelectSeq(rows, LAMBDA r : r.Target_Table # << >>)
    IN  IF named = << >> THEN << >> ELSE named[Len(named)].Target_Table

\* lines 165-174: first_target after the loop over the rows of a group
RECURSIVE FirstTarget(_)
FirstTarget(rows) ==
    IF rows = << >> THEN << >>
    ELSE IF Head(rows).Target_Table # << >> THEN Head(rows).Target_Table
    ELSE FirstTarget(Tail(rows))

\* lines 176-181
ColumnOf(row) ==
    [ source_column |-> row.Source_Column,
      target_table |-> row.Target_Table,
      target_column |-> row.Target_Column,
      transformation |-> row.Transformation ]

\* lines 163-188: the descriptor of one group
Descriptor(rows, key) ==
    LET group == GroupRows(rows, key)
    IN  [ pipeline_id |-> ReplaceDots(key),
          source_path_or_table |-> key,
          target_table_hint |-> FirstTarget(group),
          columns |-> [i \in 1..Len(group) |-> ColumnOf(group[i])] ]

\* lines 134-195: [ok, mapping_list]; ok is FALSE when the function raises
\* (an empty file, or a header that lacks an expected column)
ReadMappingCsvFromLocal(csv) ==
    IF ~CsvNonEmpty(csv) \/ csv.header = << >> \/ MissingColumns(csv) # {}
    THEN [ ok |-> FALSE, mapping_list |-> << >> ]
    ELSE LET rows == FrameRows(csv, csv.lines)
             keys == GroupKeys(rows, {})
         IN  [ ok |-> TRUE,
               mapping_list |-> [i \in 1..Len(keys) |-> Descriptor(rows, keys[i])] ]

-----------------------------------------------------------------------------
(* The inputs of a request and of its environment.                         *)

MIN_RESPONSE_LEN == 40

BearerPrefix == << "B", "e", "a", "r", "e", "r", " " >>

Header5 ==
    << Source_Table, Source_Column, Target_Table, Target_Column, Transformation >>

\* the mapping of the end-to-end scenario: two rows of one source table
GoodCsv ==
    [ header |-> Header5,
      lines |-> << << << "s", ".", "t" >>, << "a" >>, << "o", ".", "u" >>, << "A" >>, << "a", "*", "2" >> >>,
                   << << "s", ".", "t" >>, << "b" >>, << "o", ".", "u" >>, << "B" >>, << >> >> >> ]

\* a header without the Transformation column
MissingColumnCsv ==
    [ header |-> << Source_Table, Source_Column, Target_Table, Target_Column >>,
      lines |-> << << << "s", ".", "t" >>, << "a" >>, << "o", ".", "u" >>, << "A" >> >> >> ]

\* a full header whose only row has a whitespace-only Source_Table
NoRowsCsv ==
    [ header |-> Header5,
      lines |-> << << << " " >>, << "a" >>, << "o", ".", "u" >>, << "A" >>, << >> >> >> ]

EmptyCsv == [ header |-> << >>, lines |-> << >> ]

CsvTexts == { GoodCsv, MissingColumnCsv, NoRowsCsv, EmptyCsv }

VolumePath == Str(<< "/", "V", "/", "m" >>)
OutputPath == Str(<< "/", "V", "/", "o" >>)

Bodies ==
    [ source_type : { "volume", "jira", "inline" },
      input_volume_path : { None, Str(<< >>), VolumePath },
      output_volume_path : { Str(<< >>), OutputPath },
      pattern : { "pyspark", "merge" },
      mapping_csv_content : { None } \cup { Str(c) : c \in CsvTexts } ]

HeaderSets ==
    [ Authorization : { << >>, BearerPrefix, BearerPrefix \o << "t", "k" >>,
                        << "B", "a", "s", "i", "c", " ", "x" >> },
      XDatabricksToken : { None, Str(<< "x", "t" >>) } ]

EnvTokens == { None, Str(<< "e", "t" >>) }

\* a text of n characters
RECURSIVE Chars(_)
Chars(n) == IF n = 0 THEN << >> ELSE << "x" >> \o Chars(n - 1)

StrForms ==
    { Absent, Str(<< >>),
      Str(StreamingResponseMarker \o << " ", "o", "b", "j", ">" >>),
      Str(StreamMarker \o << " ", "a", "t", ">" >>),
      Str(<< "<", "S", "t", "r" >>),
      Str(<< "C", "h", "a", "t" >>) }

NoFirst == [ hasMessage |-> FALSE, content |-> None, text |-> None ]

Firsts ==
    [ hasMessage : BOOLEAN,
      content : { None, Str(<< >>), Str(<< "M" >>), Obj },
      text : { None, Str(<< "T" >>), Obj } ]

Chunks ==
    { [ k |-> "obj", content |-> Str(<< "A" >>), text |-> None ],
      [ k |-> "obj", content |-> Str(<< "B" >>), text |-> None ],
      [ k |-> "obj", content |-> Str(<< "C" >>), text |-> None ],
      [ k |-> "obj", content |-> Str(<< "F" >>), text |-> Str(<< "t" >>) ],
      [ k |-> "obj", content |-> None, text |-> None ],
      [ k |-> "dict", content |-> Str(<< "D" >>), text |-> Absent ],
      [ k |-> "dict", content |-> Str(<< >>), text |-> Absent ],
      [ k |-> "dict", content |-> None, text |-> Absent ],
      [ k |-> "dict", content |-> Absent, text |-> Str(<< "E" >>) ],
      [ k |-> "bad", content |-> None, text |-> None ] }

\* the sequences of at most n chunks
RECURSIVE ChunkSeqs(_)
ChunkSeqs(n) ==
    IF n = 0 THEN { << >> }
    ELSE LET shorter == ChunkSeqs(n - 1)
         IN  shorter \cup { Append(q, c) : q \in shorter, c \in Chunks }

\* replies with a first choice, replies that are streams of chunks, and
\* replies that are neither
StandardReplies ==
    [ choices : { "list" }, first : Firsts, iter : { FALSE },
      chunks : { << >> }, iterErr : { FALSE }, str : StrForms ]

StreamReplies ==
    [ choices : { "absent", "nolen" }, first : { NoFirst }, iter : { TRUE },
      chunks : ChunkSeqs(MaxChunks), iterErr : BOOLEAN,
      str : { Str(StreamMarker \o << " ", "a", "t", ">" >>),
              Str(<< "C", "h", "a", "t" >>) } ]

OpaqueReplies ==
    [ choices : { "absent", "empty" }, first : { NoFirst }, iter : { FALSE },
      chunks : { << >> }, iterErr : { FALSE }, str : StrForms ]

Replies == StandardReplies \cup StreamReplies \cup OpaqueReplies

\* the replies a whole request is run against: one of each shape, with
\* texts on both sides of MIN_RESPONSE_LEN
EndpointReplies ==
    { [ choices |-> "list",
        first |-> [ hasMessage |-> TRUE, content |-> Str(Chars(n)), text |-> None ],
        iter |-> FALSE, chunks |-> << >>, iterErr |-> FALSE,
        str |-> Str(<< "C", "h", "a", "t" >>) ] :
      n \in { 0, MIN_RESPONSE_LEN - 1, MIN_RESPONSE_LEN } }
    \cup
    { [ choices |-> "absent", first |-> NoFirst, iter |-> TRUE,
        chunks |-> << [ k |-> "obj", content |-> Str(Chars(MIN_RESPONSE_LEN)),
                        text |-> None ] >>,
        iterErr |-> FALSE, str |-> Str(<< "C", "h", "a", "t" >>) ],
      [ choices |-> "absent", first |-> NoFirst, iter |-> FALSE,
        chunks |-> << >>, iterErr |-> FALSE,
        str |-> Str(StreamMarker \o << " ", "a", "t", ">" >>) ] }

-----------------------------------------------------------------------------
(* generate_pyspark_endpoint (codegen.py), generate_pyspark_code and       *)
(* call_claude_sonnet (pyspark_generator.py), one action per step.         *)

NoOutcome == [ kind |-> "none", status_code |-> 0, code |-> None ]
HTTPException(n) == [ kind |-> "HTTPException", status_code |-> n, code |-> None ]
GenerateResponse(c) == [ kind |-> "GenerateResponse", status_code |-> 200, code |-> c ]

Step(n, st) == [ name |-> n, status |-> st, message |-> "" ]

\* steps[-1].status = st; steps[-1].message = msg
SetLast(q, st, msg) ==
    [ q EXCEPT ![Len(q)] = [ @ EXCEPT !.status = st, !.message = msg ] ]

\* auth_header.replace("Bearer ", "")
RECURSIVE RemoveAll(_, _)
RemoveAll(t, p) ==
    IF t = << >> THEN << >>
    ELSE IF StartsWith(t, p) THEN RemoveAll(SubSeq(t, Len(p) + 1, Len(t)), p)
    ELSE << Head(t) >> \o RemoveAll(Tail(t), p)

\* codegen.py lines 45-52
RequestToken(h) ==
    LET fromAuth == IF StartsWith(h.Authorization, BearerPrefix)
                    THEN Str(RemoveAll(h.Authorization, BearerPrefix))
                    ELSE None
    IN  IF Truthy(fromAuth) THEN fromAuth ELSE h.XDatabricksToken

\* get_databricks_token, lines 22-33
GetDatabricksToken(rt, env) ==
    IF Truthy(rt) THEN rt
    ELSE IF Truthy(env) THEN env
    ELSE Str(<< >>)

\* bool(body.mapping_csv_content)
CsvTruthy(x) == x # None /\ CsvNonEmpty(x.v)

\* the except clause of generate_pyspark_code (465-468) and of the endpoint
\* (codegen.py 122-125): the Generating entry is marked error, HTTP 500
GenerationFails(msg) ==
    /\ steps' = SetLast(steps, "error", msg)
    /\ outcome' = HTTPException(500)
    /\ pc' = "done"

\* codegen.py 42-55
BeginRequest ==
    /\ pc = "start"
    /\ request_token' = RequestToken(headers)
    /\ steps' = Append(steps, Step("Validating input", "in_progress"))
    /\ pc' = "validate"
    /\ UNCHANGED << body, headers, env_token, source_read, csv_read, mapping_list, token,
                    create_calls, resp, collected_parts, iter_failed, ret, outcome,
                    sanitizer_vars >>

\* faulty variant of ValidateInput: a failed check marks the entry but does
\* not stop the request
ValidateInput_NoHalt ==
    /\ pc = "validate"
    /\ IF body.source_type = "jira"
       THEN /\ steps' = SetLast(steps, "error", "JIRA integration is work in progress")
            /\ outcome' = HTTPException(501)
            /\ pc' = "prepare_begin"
       ELSE IF ~Truthy(body.input_volume_path)
       THEN /\ steps' = SetLast(steps, "error", "Input volume path is required")
            /\ outcome' = HTTPException(400)
            /\ pc' = "prepare_begin"
       ELSE IF ~Truthy(body.output_volume_path)
       THEN /\ steps' = SetLast(steps, "error", "Output volume path is required")
            /\ outcome' = HTTPException(400)
            /\ pc' = "prepare_begin"
       ELSE IF body.pattern # "pyspark"
       THEN /\ steps' = SetLast(steps, "error",
                                "Only 'pyspark' pattern is currently supported")
            /\ outcome' = HTTPException(400)
            /\ pc' = "prepare_begin"
       ELSE /\ steps' = SetLast(steps, "completed", "Input validated successfully")
            /\ outcome' = outcome
            /\ pc' = "prepare_begin"
    /\ UNCHANGED << body, headers, env_token, request_token, source_read, csv_read,
                    mapping_list, token, create_calls, resp, collected_parts,
                    iter_failed, ret,
                    sanitizer_vars >>

\* codegen.py 57-81
ValidateInput ==
    /\ pc = "validate"
    /\ IF body.source_type = "jira"
       THEN /\ steps' = SetLast(steps, "error", "JIRA integration is work in progress")
            /\ outcome' = HTTPException(501)
            /\ pc' = "done"
       ELSE IF ~Truthy(body.input_volume_path)
       THEN /\ steps' = SetLast(steps, "error", "Input volume path is required")
            /\ outcome' = HTTPException(400)
            /\ pc' = "done"
       ELSE IF ~Truthy(body.output_volume_path)
       THEN /\ steps' = SetLast(steps, "error", "Output volume path is required")
            /\ outcome' = HTTPException(400)
            /\ pc' = "done"
       ELSE IF body.pattern # "pyspark"
       THEN /\ steps' = SetLast(steps, "error",
                                "Only 'pyspark' pattern is currently supported")
            /\ outcome' = HTTPException(400)
            /\ pc' = "done"
       ELSE /\ steps' = SetLast(steps, "completed", "Input validated successfully")
            /\ outcome' = outcome
            /\ pc' = "prepare_begin"
    /\ UNCHANGED << body, headers, env_token, request_token, source_read, csv_read,
                    mapping_list, token, create_calls, resp, collected_parts,
                    iter_failed, ret,
                    sanitizer_vars >>

\* codegen.py 84
BeginPrepare ==
    /\ pc = "prepare_begin"
    /\ steps' = Append(steps, Step("Preparing input", "in_progress"))
    /\ pc' = "prepare"
    /\ UNCHANGED << body, headers, env_token, request_token, source_read, csv_read,
                    mapping_list, token, create_calls, resp, collected_parts,
                    iter_failed, ret, outcome,
                    sanitizer_vars >>

\* codegen.py 86-106
PrepareInput ==
    /\ pc = "prepare"
    /\ IF CsvTruthy(body.mapping_csv_content)
       THEN /\ steps' = SetLast(steps, "completed", "Using CSV content from request")
            /\ outcome' = outcome
            /\ pc' = "generate_begin"
       ELSE IF Truthy(body.input_volume_path)
       THEN /\ steps' = SetLast(steps, "completed", "Input volume path")
            /\ outcome' = outcome
            /\ pc' = "generate_begin"
       ELSE /\ steps' = steps
            /\ outcome' = HTTPException(400)
            /\ pc' = "done"
    /\ UNCHANGED << body, headers, env_token, request_token, source_read, csv_read,
                    mapping_list, token, create_calls, resp, collected_parts,
                    iter_failed, ret,
                    sanitizer_vars >>

\* faulty variant of BeginGenerate: the entry repeats the previous stage's name
BeginGenerate_Misnamed ==
    /\ pc = "generate_begin"
    /\ steps' = Append(steps, Step("Preparing input", "in_progress"))
    /\ pc' = "read_mapping"
    /\ UNCHANGED << body, headers, env_token, request_token, source_read, csv_read,
                    mapping_list, token, create_calls, resp, collected_parts,
                    iter_failed, ret, outcome,
                    sanitizer_vars >>

\* codegen.py 109
BeginGenerate ==
    /\ pc = "generate_begin"
    /\ steps' = Append(steps, Step("Generating code structure", "in_progress"))
    /\ pc' = "read_mapping"
    /\ UNCHANGED << body, headers, env_token, request_token, source_read, csv_read,
                    mapping_list, token, create_calls, resp, collected_parts,
                    iter_failed, ret, outcome,
                    sanitizer_vars >>

\* what a volume path can hold when it is downloaded: a CSV text, or Absent
\* when download_file_from_volume raises
VolumeFiles == { Absent } \cup { Str(c) : c \in CsvTexts }

\* read_mapping_csv, lines 199-216
ReadMappingCsv(file) ==
    IF file = Absent THEN [ ok |-> FALSE, mapping_list |-> << >> ]
    ELSE ReadMappingCsvFromLocal(file.v)

\* faulty variant of SourceChoice: the inline text is preferred to the path
SourceChoice_InlineFirst(b) ==
    IF CsvTruthy(b.mapping_csv_content) THEN "inline"
    ELSE IF Truthy(b.input_volume_path) THEN "volume"
    ELSE "none"

\* lines 416-428: which source generate_pyspark_code reads
SourceChoice(b) ==
    IF Truthy(b.input_volume_path) THEN "volume"
    ELSE IF CsvTruthy(b.mapping_csv_content) THEN "inline"
    ELSE "none"

\* faulty variant of MappingOutcome: an empty mapping list is let through
MappingOutcome_NoRowsCheck(r) == IF ~r.ok THEN "read_failed" ELSE "ok"

\* lines 416-431: how reading the mapping ends
MappingOutcome(r) ==
    IF ~r.ok THEN "read_failed"
    ELSE IF r.mapping_list = << >> THEN "no_rows"
    ELSE "ok"

\* generate_pyspark_code, lines 411-449
ReadMapping ==
    /\ pc = "read_mapping"
    /\ token' = GetDatabricksToken(request_token, env_token)
    /\ source_read' = SourceChoice(body)
    /\ \E file \in VolumeFiles :
          LET text == CASE SourceChoice(body) = "volume" -> file
                        [] SourceChoice(body) = "inline" -> body.mapping_csv_content
                        [] OTHER -> Absent
              r == CASE SourceChoice(body) = "volume" -> ReadMappingCsv(file)
                     [] SourceChoice(body) = "inline" ->
                            ReadMappingCsvFromLocal(body.mapping_csv_content.v)
                     [] OTHER -> [ ok |-> FALSE, mapping_list |-> << >> ]
          IN  /\ csv_read' = text
              /\ mapping_list' = r.mapping_list
              /\ CASE MappingOutcome(r) = "ok" ->
                        /\ pc' = "call_token"
                        /\ UNCHANGED << steps, outcome >>
                   [] MappingOutcome(r) = "no_rows" ->
                        GenerationFails("No mapping rows found. Exiting.")
                   [] OTHER ->
                        GenerationFails("Failed to read mapping")
    /\ UNCHANGED << body, headers, env_token, request_token, create_calls, resp,
                    collected_parts, iter_failed, ret,
                    sanitizer_vars >>

\* call_claude_sonnet, lines 224-228
CallCheckToken ==
    /\ pc = "call_token"
    /\ IF ~Truthy(token)
       THEN /\ ret' = Raised
            /\ GenerationFails("No valid Databricks token provided.")
       ELSE /\ ret' = ret
            /\ pc' = "call_create"
            /\ UNCHANGED << steps, outcome >>
    /\ UNCHANGED << body, headers, env_token, request_token, source_read, csv_read,
                    mapping_list, token, create_calls, resp, collected_parts,
                    iter_failed,
                    sanitizer_vars >>

\* what one client.chat.completions.create call can do: return a reply,
\* raise TypeError, or raise another exception
CreateOutcomes == { "reply", "TypeError", "Error" }

\* faulty variant of CallCreate: any exception of the first call is retried
CallCreate_RetryOnAnyError(replies) ==
    /\ pc = "call_create"
    /\ \E o \in CreateOutcomes :
          /\ create_calls' = Append(create_calls, o)
          /\ CASE o = "reply" ->
                    /\ \E r \in replies : resp' = r
                    /\ pc' = "extract_standard"
                    /\ UNCHANGED << steps, outcome, ret >>
               [] o \in { "TypeError", "Error" } ->
                    /\ pc' = "call_retry"
                    /\ UNCHANGED << steps, outcome, ret, resp >>
               [] OTHER ->
                    /\ ret' = Raised
                    /\ resp' = resp
                    /\ GenerationFails("create raised")
    /\ UNCHANGED << body, headers, env_token, request_token, source_read, csv_read,
                    mapping_list, token, collected_parts, iter_failed,
                    sanitizer_vars >>

\* lines 241-248: the first create call, with stream=False
CallCreate(replies) ==
    /\ pc = "call_create"
    /\ \E o \in CreateOutcomes :
          /\ create_calls' = Append(create_calls, o)
          /\ CASE o = "reply" ->
                    /\ \E r \in replies : resp' = r
                    /\ pc' = "extract_standard"
                    /\ UNCHANGED << steps, outcome, ret >>
               [] o = "TypeError" ->
                    /\ pc' = "call_retry"
                    /\ UNCHANGED << steps, outcome, ret, resp >>
               [] OTHER ->
                    /\ ret' = Raised
                    /\ resp' = resp
                    /\ GenerationFails("create raised")
    /\ UNCHANGED << body, headers, env_token, request_token, source_read, csv_read,
                    mapping_list, token, collected_parts, iter_failed,
                    sanitizer_vars >>

\* lines 249-256: after TypeError, one more create call without stream
CallCreateRetry(replies) ==
    /\ pc = "call_retry"
    /\ \E o \in CreateOutcomes :
          /\ create_calls' = Append(create_calls, o)
          /\ IF o = "reply"
             THEN /\ \E r \in replies : resp' = r
                  /\ pc' = "extract_standard"
                  /\ UNCHANGED << steps, outcome, ret >>
             ELSE /\ ret' = Raised
                  /\ resp' = resp
                  /\ GenerationFails("create raised")
    /\ UNCHANGED << body, headers, env_token, request_token, source_read, csv_read,
                    mapping_list, token, collected_parts, iter_failed,
                    sanitizer_vars >>

\* lines 262-291
ExtractStandard ==
    /\ pc = "extract_standard"
    /\ IF StandardExtract(resp) # NoResult
       THEN /\ ret' = StandardExtract(resp)
            /\ pc' = "sanity"
       ELSE /\ ret' = ret
            /\ pc' = "extract_streaming"
    /\ UNCHANGED << body, headers, env_token, steps, request_token, source_read, csv_read,
                    mapping_list, token, create_calls, resp, collected_parts,
                    iter_failed, outcome,
                    sanitizer_vars >>

\* lines 293-355
ExtractStreaming ==
    /\ pc = "extract_streaming"
    /\ collected_parts' = IF resp.iter THEN CollectParts(resp.chunks) ELSE << >>
    /\ iter_failed' = (resp.iter /\ resp.iterErr)
    /\ IF StreamingResult(collected_parts') # NoResult
       THEN /\ ret' = StreamingResult(collected_parts')
            /\ pc' = "sanity"
       ELSE /\ ret' = ret
            /\ pc' = "extract_stringify"
    /\ UNCHANGED << body, headers, env_token, steps, request_token, source_read, csv_read,
                    mapping_list, token, create_calls, resp, outcome,
                    sanitizer_vars >>

\* lines 357-376
ExtractStringify ==
    /\ pc = "extract_stringify"
    /\ IF StringifyResult(resp) # NoResult
       THEN /\ ret' = StringifyResult(resp)
            /\ pc' = "sanity"
            /\ UNCHANGED << steps, outcome >>
       ELSE /\ ret' = Raised
            /\ GenerationFails("Failed to extract valid string response from model.")
    /\ UNCHANGED << body, headers, env_token, request_token, source_read, csv_read,
                    mapping_list, token, create_calls, resp, collected_parts,
                    iter_failed,
                    sanitizer_vars >>

\* line 456: not code_text or len(code_text) < MIN_RESPONSE_LEN
TooShort(text) == text = << >> \/ Len(text) < MIN_RESPONSE_LEN

\* generate_pyspark_code 452-463 and codegen.py 120-131
SanityCheck ==
    /\ pc = "sanity"
    /\ IF TooShort(ret.v)
       THEN GenerationFails("Model returned empty or too-short response; aborting.")
       ELSE /\ steps' = SetLast(steps, "completed", "Code generated successfully")
            /\ outcome' = GenerateResponse(ret)
            /\ pc' = "done"
    /\ UNCHANGED << body, headers, env_token, request_token, source_read, csv_read,
                    mapping_list, token, create_calls, resp, collected_parts,
                    iter_failed, ret,
                    sanitizer_vars >>

-----------------------------------------------------------------------------
(* Spec: one request through the endpoint.                                 *)

NoReply ==
    [ choices |-> "absent", first |-> NoFirst, iter |-> FALSE, chunks |-> << >>,
      iterErr |-> FALSE, str |-> Absent ]

Init ==
    /\ body \in Bodies
    /\ headers \in HeaderSets
    /\ env_token \in EnvTokens
    /\ steps = << >>
    /\ request_token = None
    /\ pc = "start"
    /\ source_read = "none"
    /\ csv_read = Absent
    /\ mapping_list = << >>
    /\ token = None
    /\ create_calls = << >>
    /\ resp = NoReply
    /\ collected_parts = << >>
    /\ iter_failed = FALSE
    /\ ret = None
    /\ outcome = NoOutcome
    /\ raw_code = None
    /\ code = None
    /\ recode = None

Next ==
    \/ BeginRequest
    \/ ValidateInput
    \/ BeginPrepare
    \/ PrepareInput
    \/ BeginGenerate
    \/ ReadMapping
    \/ CallCheckToken
    \/ CallCreate(EndpointReplies)
    \/ CallCreateRetry(EndpointReplies)
    \/ ExtractStandard
    \/ ExtractStreaming
    \/ ExtractStringify
    \/ SanityCheck

Spec == Init /\ [][Next]_vars

-----------------------------------------------------------------------------
(* SpecCall: call_claude_sonnet on its own, entered from the Generating    *)
(* stage of a valid request, against every reply shape.                    *)

ValidBody ==
    [ source_type |-> "volume", input_volume_path |-> VolumePath,
      output_volume_path |-> OutputPath, pattern |-> "pyspark",
      mapping_csv_content |-> None ]

InitCall ==
    /\ body = ValidBody
    /\ headers = [ Authorization |-> << >>, XDatabricksToken |-> None ]
    /\ env_token \in EnvTokens
    /\ steps = << [ Step("Validating input", "completed")
                      EXCEPT !.message = "Input validated successfully" ],
                  [ Step("Preparing input", "completed")
                      EXCEPT !.message = "Input volume path" ],
                  Step("Generating code structure", "in_progress") >>
    /\ request_token = None
    /\ pc = "call_token"
    /\ source_read = "volume"
    /\ csv_read = Str(GoodCsv)
    /\ mapping_list = ReadMappingCsvFromLocal(GoodCsv).mapping_list
    /\ token = GetDatabricksToken(request_token, env_token)
    /\ create_calls = << >>
    /\ resp = NoReply
    /\ collected_parts = << >>
    /\ iter_failed = FALSE
    /\ ret = None
    /\ outcome = NoOutcome
    /\ raw_code = None
    /\ code = None
    /\ recode = None

NextCall ==
    \/ CallCheckToken
    \/ CallCreate(Replies)
    \/ CallCreateRetry(Replies)
    \/ ExtractStandard
    \/ ExtractStreaming
    \/ ExtractStringify

SpecCall == InitCall /\ [][NextCall]_vars

-----------------------------------------------------------------------------
(* Properties of call_claude_sonnet, stated on SpecCall.  There the call   *)
(* has returned when pc = "sanity" (ret is the returned text) and has      *)
(* raised when pc = "done" (ret = Raised).                                 *)

\* the last create call returned a reply, which is in resp
GotReply ==
    create_calls # << >> /\ create_calls[Len(create_calls)] = "reply"

\* the call has ended, by returning or by raising, after a reply arrived
CallOver == GotReply /\ pc \in { "sanity", "done" }

\* the first choice offers text neither as message.content nor as text
NoStandardText(r) ==
    ~(/\ r.choices = "list"
      /\ \/ r.first.hasMessage /\ IsStr(r.first.content)
         \/ IsStr(r.first.text))

\* the first choice offers text both ways
BothShapes(r) ==
    /\ r.choices = "list"
    /\ r.first.hasMessage
    /\ IsStr(r.first.content)
    /\ IsStr(r.first.text)

\* C1: for every reply whose first choice has both a nested message whose
\* content is text and a direct text field that is text, the call returns
\* the nested message content, not the direct text field.
C1_NestedMessageFirst ==
    (GotReply /\ pc # "extract_standard" /\ BothShapes(resp))
        => (pc = "sanity" /\ ret = resp.first.content)

C1_Witness ==
    /\ pc = "sanity"
    /\ BothShapes(resp)
    /\ resp.first.content # resp.first.text
    /\ ret = resp.first.content

\* C2: call_claude_sonnet never returns the empty string: when no stage
\* yields non-empty text it raises instead of returning.
C2_NeverReturnsEmpty ==
    pc = "sanity" => (IsStr(ret) /\ ret.v # << >>)

\* C3: when the standard and text-only shapes yield nothing and the reply is
\* an iterable of chunks from which fragments were recovered, the call
\* returns the fragments concatenated in iteration order, with no separator.
C3_StreamingConcatenation ==
    (/\ CallOver
     /\ NoStandardText(resp)
     /\ resp.iter
     /\ \E i \in 1..Len(collected_parts) : Truthy(collected_parts[i]))
        => (pc = "sanity" /\ ret = Str(Concat(collected_parts)))

\* C4: a reply from which the standard, text-only and streaming stages
\* recover nothing and whose string form begins with '<_StreamingResponse'
\* or '<Stream' makes the call raise; the string form is not returned.
C4_LiveHandleRejected ==
    (/\ CallOver
     /\ NoStandardText(resp)
     /\ \/ collected_parts = << >>
        \/ \E i \in 1..Len(collected_parts) : ~IsStr(collected_parts[i])
     /\ IsStr(resp.str)
     /\ \/ StartsWith(resp.str.v, StreamingResponseMarker)
        \/ StartsWith(resp.str.v, StreamMarker))
        => (pc = "done" /\ ret = Raised /\ outcome = HTTPException(500))

C4_Witness ==
    /\ CallOver
    /\ NoStandardText(resp)
    /\ collected_parts = << >>
    /\ IsStr(resp.str)
    /\ StartsWith(resp.str.v, StreamMarker)
    /\ ret = Raised

-----------------------------------------------------------------------------
(* Properties of a whole request, stated on Spec.                          *)

StageNames ==
    << "Validating input", "Preparing input", "Generating code structure" >>

\* C5: the step trace is at all times a prefix of [Validating, Preparing,
\* Generating], each stage at most once, and no entry follows an entry whose
\* status is error.
C5_TraceIsStagePrefix ==
    /\ Len(steps) <= Len(StageNames)
    /\ \A i \in 1..Len(steps) : steps[i].name = StageNames[i]
    /\ \A i \in 1..(Len(steps) - 1) : steps[i].status # "error"

C5_Witness ==
    /\ pc = "done"
    /\ Len(steps) = 1
    /\ steps[1].status = "error"

\* the request is valid but for its CSV source
OtherwiseValid(b) ==
    /\ b.source_type # "jira"
    /\ Truthy(b.output_volume_path)
    /\ b.pattern = "pyspark"

\* C6: a request that supplies non-empty inline CSV text and no CSV path,
\* and is otherwise valid, passes the Validating stage.
C6_InlineTextSubstitutesPath ==
    (/\ Len(steps) >= 1
     /\ steps[1].status # "in_progress"
     /\ CsvTruthy(body.mapping_csv_content)
     /\ ~Truthy(body.input_volume_path)
     /\ OtherwiseValid(body))
        => steps[1].status = "completed"

\* C7: when the Validating stage fails the request halts with that entry
\* marked error; the model endpoint is never invoked and no mapping is read,
\* parsed or grouped.
C7_ValidationFailureHalts ==
    (Len(steps) >= 1 /\ steps[1].status = "error")
        => /\ pc = "done"
           /\ Len(steps) = 1
           /\ outcome.kind = "HTTPException"
           /\ create_calls = << >>
           /\ source_read = "none"
           /\ csv_read = Absent
           /\ mapping_list = << >>

C7_Witness ==
    /\ steps # << >>
    /\ steps[1].status = "error"
    /\ body.pattern = "merge"
    /\ Truthy(body.input_volume_path)
    /\ create_calls = << >>

\* C8: the model endpoint is invoked only when the token is non-empty and
\* the descriptor list is non-empty.
C8_CallNeedsTokenAndDescriptors ==
    create_calls # << >>
        => (IsStr(token) /\ token.v # << >> /\ mapping_list # << >>)

C8_Witness ==
    /\ pc = "done"
    /\ csv_read = Str(NoRowsCsv)
    /\ mapping_list = << >>
    /\ Len(steps) = 3
    /\ steps[3].status = "error"
    /\ create_calls = << >>

HeaderLacksRequiredField(csv) ==
    /\ csv.header # << >>
    /\ \E c \in EXPECTED_COLS :
          \A i \in 1..Len(csv.header) : Strip(csv.header[i]) # c

\* C10 as stated: a mapping whose header lacks a required field fails the
\* Validating stage, and no Preparing or Generating entry exists.
C10_MissingColumnsAtValidating ==
    (IsStr(csv_read) /\ HeaderLacksRequiredField(csv_read.v))
        => (Len(steps) = 1 /\ steps[1].status = "error")

\* C10, amended: a mapping whose header lacks a required field fails the
\* Generating stage: the trace ends with the Generating entry in status
\* error, after completed Validating and Preparing entries, and the model
\* endpoint is not called.
C10_MissingColumnsAtGenerating ==
    (IsStr(csv_read) /\ HeaderLacksRequiredField(csv_read.v))
        => /\ pc = "done"
           /\ Len(steps) = 3
           /\ steps[1].status = "completed"
           /\ steps[2].status = "completed"
           /\ steps[3].status = "error"
           /\ create_calls = << >>
           /\ outcome = HTTPException(500)

C10_Witness ==
    /\ pc = "done"
    /\ csv_read = Str(MissingColumnCsv)
    /\ Len(steps) = 3
    /\ steps[3].status = "error"

-----------------------------------------------------------------------------
(* read_mapping_csv_from_local on its own: the function applied to the     *)
(* mapping files of a bounded set.                                         *)

\* the most data lines of a mapping file
MaxRows == 3

\* the header with whitespace around the column names
PaddedHeader ==
    << <<" ">> \o Source_Table, Source_Column \o <<" ">>, Target_Table,
       Target_Column, <<" ">> \o Transformation \o <<" ">> >>

\* the header with the columns in another order
PermutedHeader ==
    << Target_Table, Source_Table, Transformation, Source_Column, Target_Column >>

\* a data line in the order of the expected columns
Line(st, sc, tt, tc, tr) == << st, sc, tt, tc, tr >>

\* the fields of a line laid out in the column order of the header
LaidOut(header, line) ==
    [ i \in 1..Len(line) |->
        LET name == Strip(header[i])
        IN  CASE name = Source_Table -> line[1]
              [] name = Source_Column -> line[2]
              [] name = Target_Table -> line[3]
              [] name = Target_Column -> line[4]
              [] OTHER -> line[5] ]

\* the data lines of the mapping files: rows of two source tables with and
\* without a target table, a whitespace-only and a padded Source_Table, a
\* Source_Table that spells a missing value, and a blank line
FullLines ==
    { Line(<<"s">>, <<"a">>, <<"o">>, <<"A">>, <<"x">>),
      Line(<<"s">>, <<"b">>, << >>, <<"B">>, << >>),
      Line(<<" ", "s">>, <<"c">>, <<"p">>, <<"C">>, <<" ">>),
      Line(<<"t">>, <<"d">>, <<"p">>, <<"D">>, << >>),
      Line(<<"t">>, <<"e">>, <<" ">>, <<"E">>, << >>),
      Line(<<" ">>, <<"f">>, <<"o">>, <<"F">>, << >>),
      Line(<<"N", "A">>, <<"g">>, <<"o">>, <<"G">>, << >>) }

\* lines with fewer fields than the header has columns
ShortLines ==
    { << <<"s">>, <<"h">> >>,
      << <<"u">>, <<"i">>, <<"o">>, <<"I">> >>,
      << >> }

Headers == { Header5, PaddedHeader, PermutedHeader }

RECURSIVE SeqsUpTo(_, _)
SeqsUpTo(S, n) ==
    IF n = 0 THEN { << >> }
    ELSE LET shorter == SeqsUpTo(S, n - 1)
         IN  shorter \cup { Append(q, x) : q \in shorter, x \in S }

\* the mapping files: a header and at most MaxRows data lines; a short line
\* holds the leading columns of the header
MappingFiles ==
    { [ header |-> h,
        lines |-> [ i \in 1..Len(q) |->
                      IF q[i] \in FullLines THEN LaidOut(h, q[i]) ELSE q[i] ] ] :
      h \in Headers, q \in SeqsUpTo(FullLines \cup ShortLines, MaxRows) }
    \cup { MissingColumnCsv, EmptyCsv }

InitParse ==
    /\ body = ValidBody
    /\ headers = [ Authorization |-> << >>, XDatabricksToken |-> None ]
    /\ env_token = None
    /\ steps = << >>
    /\ request_token = None
    /\ pc = "parse"
    /\ source_read = "volume"
    /\ csv_read \in { Str(f) : f \in MappingFiles }
    /\ mapping_list = << >>
    /\ token = None
    /\ create_calls = << >>
    /\ resp = NoReply
    /\ collected_parts = << >>
    /\ iter_failed = FALSE
    /\ ret = None
    /\ outcome = NoOutcome
    /\ raw_code = None
    /\ code = None
    /\ recode = None

\* read_mapping_csv_from_local, lines 128-195: returns the descriptors or
\* raises RuntimeError
ParseMapping ==
    /\ pc = "parse"
    /\ LET r == ReadMappingCsvFromLocal(csv_read.v)
       IN  /\ mapping_list' = r.mapping_list
           /\ pc' = IF r.ok THEN "parsed" ELSE "parse_failed"
    /\ UNCHANGED << body, headers, env_token, steps, request_token, source_read,
                    csv_read, token, create_calls, resp, collected_parts,
                    iter_failed, ret, outcome, sanitizer_vars >>

NextParse == ParseMapping

SpecParse == InitParse /\ [][NextParse]_vars

-----------------------------------------------------------------------------
(* Claims about read_mapping_csv_from_local.                               *)

\* the text of column `name` in a data line as the file spells it, trimmed
RawField(csv, line, name) ==
    LET cols == StrippedColumns(csv)
        at == { k \in 1..Len(cols) : cols[k] = name }
        i == CHOOSE k \in at : \A j \in at : k <= j
    IN  IF at = {} THEN << >>
        ELSE IF i <= Len(line) THEN Strip(line[i])
        ELSE << >>

\* the data lines whose trimmed Source_Table is non-empty, in file order
ValidLines(csv) ==
    SelectSeq(csv.lines, LAMBDA l : RawField(csv, l, Source_Table) # << >>)

\* the distinct source tables of the valid lines
SourceTables(csv) ==
    { RawField(csv, ValidLines(csv)[i], Source_Table) :
        i \in 1..Len(ValidLines(csv)) }

RECURSIVE ColumnCount(_)
ColumnCount(ml) ==
    IF ml = << >> THEN 0 ELSE Len(Head(ml).columns) + ColumnCount(Tail(ml))

Parsed == pc = "parsed"

\* C11: a mapping with N rows whose trimmed Source_Table is non-empty,
\* spanning K distinct source tables, gives exactly K descriptors, each with
\* at least one column, whose column counts sum to N; no descriptor stands
\* for an empty Source_Table
C11_GroupingCounts ==
    Parsed =>
        /\ Len(mapping_list) = Cardinality(SourceTables(csv_read.v))
        /\ \A i \in 1..Len(mapping_list) :
              /\ Len(mapping_list[i].columns) >= 1
              /\ mapping_list[i].source_path_or_table # << >>
        /\ ColumnCount(mapping_list) = Len(ValidLines(csv_read.v))

\* the positions of the data lines of source table `key`, in file order
LinesOf(csv, key) ==
    { i \in 1..Len(csv.lines) : RawField(csv, csv.lines[i], Source_Table) = key }

\* the position of the first data line of source table `key`
FirstLineOf(csv, key) ==
    CHOOSE i \in LinesOf(csv, key) : \A j \in LinesOf(csv, key) : i <= j

\* the Source_Column texts of the data lines of source table `key`, in file
\* order
SourceColumnsOf(csv, key) ==
    LET own == SelectSeq(csv.lines,
                         LAMBDA l : RawField(csv, l, Source_Table) = key)
    IN  [ i \in 1..Len(own) |-> RawField(csv, own[i], Source_Column) ]

\* C12: descriptors come in the order in which their source table first
\* appears in the input rows, and the columns of a descriptor keep the
\* relative order of their rows in the input
C12_FirstAppearanceOrder ==
    Parsed =>
        /\ \A i, j \in 1..Len(mapping_list) :
              i < j =>
                 /\ LinesOf(csv_read.v, mapping_list[i].source_path_or_table) # {}
                 /\ LinesOf(csv_read.v, mapping_list[j].source_path_or_table) # {}
                 /\ FirstLineOf(csv_read.v, mapping_list[i].source_path_or_table)
                      < FirstLineOf(csv_read.v, mapping_list[j].source_path_or_table)
        /\ \A i \in 1..Len(mapping_list) :
              [ k \in 1..Len(mapping_list[i].columns) |->
                  mapping_list[i].columns[k].source_column ]
                = SourceColumnsOf(csv_read.v, mapping_list[i].source_path_or_table)

\* a parsed mapping whose first descriptor is table t and whose second is
\* table s (not the sorted order), table s with rows around a row of t
C12_Witness ==
    /\ Parsed
    /\ csv_read.v.header = Header5
    /\ Len(csv_read.v.lines) = 3
    /\ Len(mapping_list) = 2
    /\ mapping_list[1].source_path_or_table = << "t" >>
    /\ mapping_list[2].source_path_or_table = << "s" >>
    /\ [ k \in 1..Len(mapping_list[2].columns) |->
           mapping_list[2].columns[k].source_column ] = << << "b" >>, << "a" >> >>

\* the Target_Table texts of the data lines of source table `key`, in file
\* order
TargetTablesOf(csv, key) ==
    LET own == SelectSeq(csv.lines,
                         LAMBDA l : RawField(csv, l, Source_Table) = key)
    IN  [ i \in 1..Len(own) |-> RawField(csv, own[i], Target_Table) ]

\* C13: target_table_hint is the target_table of the earliest row of the
\* group that names one, whatever later rows name, and it is empty exactly
\* when no row of the group names a target table
C13_HintIsFirstTarget ==
    Parsed =>
        \A i \in 1..Len(mapping_list) :
            LET targets == TargetTablesOf(csv_read.v,
                                          mapping_list[i].source_path_or_table)
                named == { k \in 1..Len(targets) : targets[k] # << >> }
            IN  /\ (named = {}) <=> (mapping_list[i].target_table_hint = << >>)
                /\ \A k \in named :
                      (\A j \in named : k <= j)
                          => mapping_list[i].target_table_hint = targets[k]

\* a descriptor whose rows name no target, then target o, then target p, and
\* whose hint is o
C13_Witness ==
    /\ Parsed
    /\ \E i \in 1..Len(mapping_list) :
          /\ [ k \in 1..Len(mapping_list[i].columns) |->
                 mapping_list[i].columns[k].target_table ]
               = << << >>, << "o" >>, << "p" >> >>
          /\ mapping_list[i].target_table_hint = << "o" >>

\* a data line with fewer fields than the header has columns
IsShortLine(csv, line) == Len(line) < Len(csv.header)

\* the mapping file without its short data lines
WithoutShortLines(csv) ==
    [ csv EXCEPT !.lines = SelectSeq(csv.lines,
                                     LAMBDA l : ~IsShortLine(csv, l)) ]

\* C17: a data line with fewer than 5 fields is skipped without an error: the
\* descriptors are those of the file without the line, even when the line
\* names a source table
C17_ShortLineSkipped ==
    /\ Parsed =>
          mapping_list
            = ReadMappingCsvFromLocal(WithoutShortLines(csv_read.v)).mapping_list
    /\ pc = "parse_failed" =>
          ~ReadMappingCsvFromLocal(WithoutShortLines(csv_read.v)).ok

-----------------------------------------------------------------------------
(* CodeGenerator.generate_from_volume (code_generator.py): the check and   *)
(* the clean-up of the reply's text, lines 152-168.                        *)

\* the longest run of code characters in a reply
MaxBody == 41

\* line 155: the least length of a trimmed reply
MIN_CODE_LEN == 40

\* the grave accent of a code fence; a TLA+ string cannot hold the character
\* itself, so the texts of the model spell it "^"
BackTick == "^"

Fence == << BackTick, BackTick, BackTick >>
FencePython == Fence \o << "p", "y", "t", "h", "o", "n" >>

\* s.endswith(p)
EndsWith(s, p) ==
    Len(s) >= Len(p) /\ SubSeq(s, Len(s) - Len(p) + 1, Len(s)) = p

\* s[n:]
DropFirst(s, n) == SubSeq(s, n + 1, Len(s))

\* s[:-n]
DropLast(s, n) == SubSeq(s, 1, Len(s) - n)

\* lines 159-165: the text after the three fence tests, before the trimming
\* of line 168
StripFences(text) ==
    LET stripped == Strip(text)
        afterPython == IF StartsWith(stripped, FencePython)
                       THEN DropFirst(stripped, 9)
                       ELSE stripped
        afterFence == IF StartsWith(afterPython, Fence)
                      THEN DropFirst(afterPython, 3)
                      ELSE afterPython
    IN  IF EndsWith(afterFence, Fence) THEN DropLast(afterFence, 3)
        ELSE afterFence

\* line 155: not code or len(code.strip()) < 40
RejectsCode(x) == ~Truthy(x) \/ Len(Strip(x.v)) < MIN_CODE_LEN

\* lines 152-171: the value returned for the reply's content x, or Raised
\* for the RuntimeError
Sanitize(x) ==
    IF RejectsCode(x) THEN Raised ELSE Str(Strip(StripFences(x.v)))

\* what a reply can begin with and end with
Openings ==
    { << >>, Fence, FencePython, Fence \o Fence, FencePython \o Fence,
      << " ", "\n" >> \o FencePython \o << "\n" >> }

Closings ==
    { << >>, Fence, Fence \o Fence, << "\n" >> \o Fence \o << "\n", " " >> }

BodyLens == { n \in 0..MaxBody : n = 0 \/ n >= MIN_CODE_LEN - 13 }

\* message.content of the reply: None or a text
RawCodes ==
    { None } \cup { Str(o \o Chars(n) \o c) :
                      o \in Openings, n \in BodyLens, c \in Closings }

InitSanitize ==
    /\ body = ValidBody
    /\ headers = [ Authorization |-> << >>, XDatabricksToken |-> None ]
    /\ env_token = None
    /\ steps = << >>
    /\ request_token = None
    /\ pc = "sanitize"
    /\ source_read = "none"
    /\ csv_read = Absent
    /\ mapping_list = << >>
    /\ token = None
    /\ create_calls = << >>
    /\ resp = NoReply
    /\ collected_parts = << >>
    /\ iter_failed = FALSE
    /\ ret = None
    /\ outcome = NoOutcome
    /\ raw_code \in RawCodes
    /\ code = None
    /\ recode = None

\* generate_from_volume, lines 152-171, on the reply's content
GenerateFromVolume ==
    /\ pc = "sanitize"
    /\ code' = Sanitize(raw_code)
    /\ pc' = IF Sanitize(raw_code) = Raised THEN "sanitize_failed" ELSE "sanitized"
    /\ UNCHANGED << body, headers, env_token, steps, request_token, source_read,
                    csv_read, mapping_list, token, create_calls, resp,
                    collected_parts, iter_failed, ret, outcome, raw_code, recode >>

\* lines 152-171 once more, on the code the function returned
Resanitize ==
    /\ pc = "sanitized"
    /\ recode' = Sanitize(code)
    /\ pc' = "resanitized"
    /\ UNCHANGED << body, headers, env_token, steps, request_token, source_read,
                    csv_read, mapping_list, token, create_calls, resp,
                    collected_parts, iter_failed, ret, outcome, raw_code, code >>

NextSanitize ==
    \/ GenerateFromVolume
    \/ Resanitize

SpecSanitize == InitSanitize /\ [][NextSanitize]_vars

-----------------------------------------------------------------------------
(* Claims about the clean-up of the generated code.                        *)

\* C14: cleaning is idempotent: cleaning the text a successful clean-up
\* returned gives the same text again
C14_SanitizeIdempotent ==
    pc = "resanitized" => recode = code

Sanitized == pc \in { "sanitized", "resanitized" }

\* C15: the length check is made on the cleaned and trimmed text: the call
\* fails exactly when that text has fewer than 40 characters, so a returned
\* code has at least 40
C15_LengthCheckedAfterCleaning ==
    pc \in { "sanitized", "sanitize_failed", "resanitized" } =>
        LET final == IF IsStr(raw_code) THEN Strip(StripFences(raw_code.v))
                     ELSE << >>
        IN  /\ (code = Raised) <=> (Len(final) < MIN_CODE_LEN)
            /\ IsStr(code) => Len(code.v) >= MIN_CODE_LEN

\* a fence marker: the fence alone or the fence with its language tag
LeadingMarkers == { Fence, FencePython }

\* C16: one application removes at most one leading and at most one trailing
\* fence marker: of two consecutive markers at the start of the text the
\* second still starts the result, and of two at the end the first still
\* ends it
C16_OneFencePerSide ==
    Sanitized =>
        /\ (\E m \in LeadingMarkers : StartsWith(Strip(raw_code.v), m \o Fence))
              => StartsWith(code.v, Fence)
        /\ EndsWith(Strip(raw_code.v), Fence \o Fence) => EndsWith(code.v, Fence)

-----------------------------------------------------------------------------
(* Claims about the CSV source of a request and about a failing stream.    *)

\* the request carries inline CSV text and a volume path
BothSources(b) == CsvTruthy(b.mapping_csv_content) /\ Truthy(b.input_volume_path)

\* C18: with inline CSV text and a volume path in the request, the Preparing
\* entry is completed with the message that the CSV content of the request is
\* used, yet the mapping is read from the volume path; the inline text is
\* read only when there is no volume path
C18_PreparingNamesInlineVolumeIsRead ==
    /\ (BothSources(body) /\ Len(steps) >= 2 /\ steps[2].status = "completed")
          => steps[2].message = "Using CSV content from request"
    /\ (BothSources(body) /\ source_read # "none")
          => source_read = "volume" /\ csv_read \in VolumeFiles
    /\ source_read = "inline" => ~Truthy(body.input_volume_path)
    /\ \A b \in Bodies :
          SourceChoice(b) = "inline" => ~Truthy(b.input_volume_path)

\* a request with both sources whose inline text has no mapping row and whose
\* generation succeeded all the same, from the mapping file of the volume
C18_Witness ==
    /\ BothSources(body)
    /\ body.mapping_csv_content = Str(NoRowsCsv)
    /\ Len(steps) = 3
    /\ steps[2].message = "Using CSV content from request"
    /\ steps[3].status = "completed"
    /\ source_read = "volume"
    /\ csv_read = Str(GoodCsv)
    /\ outcome.kind = "GenerateResponse"

\* a fragment of text is among the collected parts
FragmentCollected == \E i \in 1..Len(collected_parts) : Truthy(collected_parts[i])

\* C19: when iterating the reply raises after a fragment was collected, the
\* call returns the concatenation of the fragments collected so far instead
\* of raising, and it goes on to stringification only when no fragment was
\* collected
C19_FragmentsSurviveIterationError ==
    /\ (CallOver /\ iter_failed /\ FragmentCollected)
          => (pc = "sanity" /\ ret = Str(Concat(collected_parts)))
    /\ (iter_failed /\ pc = "extract_stringify") => ~FragmentCollected

====
